---- MODULE Spec2Model ----
(***************************************************************************)
(* A model of the Autobus router (src/lib/Autobus.js): the exploration     *)
(* limits, the obstacle and route lists, the grid, the group-id resolver,  *)
(* the A* search with its binary heap, and the path post-processing.       *)
(*                                                                         *)
(* The caller (the diagram editor) registers obstacles and routes, mutates *)
(* the live endpoint objects and calls route().  A route() pass is split   *)
(* into the steps of its loops: RouteBegin (initGrid and the distance      *)
(* sort), FindPathBegin (group ids, node reset, endpoint lookup, first     *)
(* push), SearchStep (one iteration of the while loop), FindPathEnd (back  *)
(* walk, post-processing, onChange).  No caller operation interleaves with *)
(* a pass: JavaScript runs route() to completion.                          *)
(*                                                                         *)
(* Costs are numbers of the form (a + b*sqrt(2)) / GridStep, kept as the   *)
(* pair [a, b] of integers: the diagonal distance is irrational, and the   *)
(* obstacle cost width*height/gridStep is a fraction of gridStep.  The     *)
(* comparisons are exact; the rounding of IEEE doubles is not modelled.    *)
(***************************************************************************)
EXTENDS Integers, Sequences, FiniteSets, TLC

(***************************************************************************)
(* Options (constructor, lines 42-53), with their defaults.                *)
(***************************************************************************)
GridStep == 10
Margin == 2 * GridStep
\* The costs below are multiplied by GridStep (see the header).
TurnCost == 15 * GridStep
BusGain == 5 * GridStep
CrossCost == 3 * GridStep * GridStep
ProximityCost == 2 * GridStep * GridStep

(***************************************************************************)
(* Bounds of the model.                                                    *)
(***************************************************************************)
MaxRoutes == 3
MaxObstacles == 1
MaxMoves == 1
MaxPasses == 2
MaxCalls == 5

\* The positions the caller gives to ports: on and off the grid, close
\* enough to share a grid node, and far enough to leave the limits.
Points == { [x |-> 0, y |-> 0], [x |-> 4, y |-> 3], [x |-> 40, y |-> 4] }

\* The positions of the ports when their routes are registered.
Ports == { [x |-> 0, y |-> 0], [x |-> 40, y |-> 4] }

\* The rectangles the caller registers as obstacles.
Rects == { [left |-> 10, top |-> -10, right |-> 30, bottom |-> 10] }

(***************************************************************************)
(* Numbers a + b*sqrt(2).                                                  *)
(***************************************************************************)
Num(a, b) == [a |-> a, b |-> b]
Zero == Num(0, 0)
Plus(u, v) == Num(u.a + v.a, u.b + v.b)
PlusInt(u, i) == Num(u.a + i, u.b)

\* u < v, exactly: 0 < da + db*sqrt(2) for the difference v - u.
Lt(u, v) ==
    LET da == v.a - u.a
        db == v.b - u.b
    IN  \/ da > 0 /\ db >= 0
        \/ da >= 0 /\ db > 0
        \/ da > 0 /\ db < 0 /\ da * da > 2 * db * db
        \/ da < 0 /\ db > 0 /\ 2 * db * db > da * da

Abs(i) == IF i < 0 THEN -i ELSE i
Min(i, j) == IF i < j THEN i ELSE j
Max(i, j) == IF i > j THEN i ELSE j

\* Math.round: the nearest integer, halves rounded up; here of n / d, d > 0.
Round(n, d) == (2 * n + d) \div (2 * d)

rect(left, top, right, bottom) ==
    [left |-> left, top |-> top, right |-> right, bottom |-> bottom]

manhattanDistance(p, q) ==
    Num(GridStep * (Abs(p.x - q.x) + Abs(p.y - q.y)), 0)

diagonalDistance(p, q) ==
    LET dx == Abs(p.x - q.x)
        dy == Abs(p.y - q.y)
    IN  Num(GridStep * Abs(dx - dy), GridStep * Min(dx, dy))

samePoint(p, q) == p.x = q.x /\ p.y = q.y

(***************************************************************************)
(* State.                                                                  *)
(***************************************************************************)
VARIABLES
    options,        \* [diagonal, bus], fixed at construction
    limitsRect,     \* the exploration area
    obstacleList,   \* the registered rectangles, in registration order
    routeList,      \* the routes [id, start, goal, groupId], in list order
    allocate,       \* the grid must be reallocated by the next initGrid
    obstacleCost,   \* set by addObstacle (times GridStep)
    grid,           \* [cols, rows, node]: the arrays and their node objects
    pc,             \* where the caller or the route() pass stands
    routeIndex,     \* forEach index (1-based) of the route being routed
    openSet,        \* the content array of the binary heap (cells)
    currentNode,    \* the node last popped from the heap
    startNode,      \* route.start.node of the current search
    goalNode,       \* route.goal.node of the current search
    delivered,      \* the onChange calls of the current or last pass
    passes,         \* route() calls so far
    moves,          \* endpoint mutations so far
    calls,          \* caller operations so far
    moved,          \* the port moved since the last call of a method, if any
    previous,       \* the onChange calls of the pass before, when route() is
                    \* called again right after it
    extended,       \* the last extendLimits call since the last route() call:
                    \* its argument, and the limits and the flag before it
    heap            \* a BinaryHeap of its own: [content, score], with the
                    \* numbers of its pushes and pops and its last operation

vars == <<options, limitsRect, obstacleList, routeList, allocate, obstacleCost,
          grid, pc, routeIndex, openSet, currentNode, startNode, goalNode,
          delivered, passes, moves, calls, moved, previous, extended, heap>>

\* !("groupId" in route)
NoGroup == -1
\* null
Null == <<>>
\* No port was moved since the last call of addRoute, addObstacle or
\* extendLimits.
NotMoved == [id |-> 0, end |-> "none", after |-> "none"]
\* route() was not called right after a route() call.
NoPrevious == [valid |-> FALSE, calls |-> <<>>]
\* extendLimits was not called since the last route() call.
NotExtended ==
    [valid |-> FALSE, r |-> rect(0, 0, 0, 0), lim |-> rect(0, 0, 0, 0),
     alloc |-> FALSE]

\* No heap of its own was built.
NoHeap == <<>>

distance(p, q) ==
    IF options.diagonal THEN diagonalDistance(p, q) ELSE manhattanDistance(p, q)

Init ==
    /\ heap = NoHeap
    /\ options \in [diagonal : BOOLEAN, bus : BOOLEAN]
    /\ limitsRect = rect(0, 0, GridStep, GridStep)
    /\ obstacleList = <<>>
    /\ routeList = <<>>
    /\ allocate = TRUE
    /\ obstacleCost = Zero
    /\ grid = [cols |-> 0, rows |-> 0, node |-> <<>>]
    /\ pc = "idle"
    /\ routeIndex = 0
    /\ openSet = <<>>
    /\ currentNode = Null
    /\ startNode = Null
    /\ goalNode = Null
    /\ delivered = <<>>
    /\ passes = 0
    /\ moves = 0
    /\ calls = 0
    /\ moved = NotMoved
    /\ previous = NoPrevious
    /\ extended = NotExtended

\* The caller runs between route() calls.
CallerTurn == pc \in {"idle", "moved", "returned", "threw"}

\* The caller may act again.
MayCall == CallerTurn /\ calls < MaxCalls

(***************************************************************************)
(* extendLimits (lines 103-120): four tests in sequence, each reading and  *)
(* writing its own edge only.                                              *)
(***************************************************************************)
extendLimitsLeft(lim, r) ==
    IF r.left < lim.left + Margin THEN r.left - GridStep ELSE lim.left

extendLimitsRight(lim, r) ==
    IF r.right > lim.right - Margin THEN r.right + Margin ELSE lim.right

\* A variant of lines 112-115 that extends the top edge as soon as the
\* rectangle comes within twice the margin of it.
extendLimitsTopEarly(lim, r) ==
    IF r.top < lim.top + 2 * Margin THEN r.top - Margin ELSE lim.top

extendLimitsTop(lim, r) ==
    IF r.top < lim.top + Margin THEN r.top - Margin ELSE lim.top

extendLimitsBottom(lim, r) ==
    IF r.bottom > lim.bottom - Margin THEN r.bottom + Margin ELSE lim.bottom

extendLimits(lim, r) ==
    rect(extendLimitsLeft(lim, r), extendLimitsTop(lim, r),
         extendLimitsRight(lim, r), extendLimitsBottom(lim, r))

\* A variant of lines 103-120 without lines 114 and 118: the flag is set
\* when the limits grow sideways only.
extendAllocateSideways(lim, r, alloc) ==
    \/ alloc
    \/ r.left < lim.left + Margin
    \/ r.right > lim.right - Margin

\* allocate after extendLimits(r): set by every test that passes.
extendAllocate(lim, r, alloc) ==
    \/ alloc
    \/ r.left < lim.left + Margin
    \/ r.right > lim.right - Margin
    \/ r.top < lim.top + Margin
    \/ r.bottom > lim.bottom - Margin

(***************************************************************************)
(* Caller operations.                                                      *)
(***************************************************************************)
\* addRoute (lines 74-81).
AddRoute ==
    /\ MayCall
    /\ Len(routeList) < MaxRoutes
    /\ \E start \in Ports, goal \in Ports :
        LET r == rect(start.x, start.y, goal.x, goal.y) IN
        /\ routeList' = Append(routeList,
                [id |-> Len(routeList) + 1, start |-> start, goal |-> goal,
                 groupId |-> NoGroup])
        /\ limitsRect' = extendLimits(limitsRect, r)
        /\ allocate' = extendAllocate(limitsRect, r, allocate)
        /\ extended' = [valid |-> TRUE, r |-> r, lim |-> limitsRect,
                        alloc |-> allocate]
    /\ pc' = "idle"
    /\ calls' = calls + 1
    /\ moved' = NotMoved
    /\ UNCHANGED <<heap, options, obstacleList, obstacleCost, grid, routeIndex,
                   openSet, currentNode, startNode, goalNode, delivered,
                   passes, moves, previous>>

\* addObstacle (lines 89-97).
AddObstacle ==
    /\ MayCall
    /\ Len(obstacleList) < MaxObstacles
    /\ \E r \in Rects :
        LET lim == extendLimits(limitsRect, r)
            width == lim.right - lim.left
            height == lim.bottom - lim.top
        IN
        /\ obstacleList' = Append(obstacleList, r)
        /\ limitsRect' = lim
        /\ allocate' = extendAllocate(limitsRect, r, allocate)
        /\ extended' = [valid |-> TRUE, r |-> r, lim |-> limitsRect,
                        alloc |-> allocate]
        /\ obstacleCost' = Num(width * height + GridStep * (width + height), 0)
    /\ pc' = "idle"
    /\ calls' = calls + 1
    /\ moved' = NotMoved
    /\ UNCHANGED <<heap, options, routeList, grid, routeIndex, openSet, currentNode,
                   startNode, goalNode, delivered, passes, moves, previous>>

\* Between two route() calls the caller moves a port: the route reads the
\* live start and goal objects.
MoveEndpoint ==
    /\ MayCall
    /\ moves < MaxMoves
    /\ passes > 0
    /\ \E i \in 1..Len(routeList), p \in Points :
        \/ /\ p # routeList[i].start
           /\ routeList' = [routeList EXCEPT ![i].start = p]
           /\ moved' = [id |-> routeList[i].id, end |-> "start", after |-> pc]
        \/ /\ p # routeList[i].goal
           /\ routeList' = [routeList EXCEPT ![i].goal = p]
           /\ moved' = [id |-> routeList[i].id, end |-> "goal", after |-> pc]
    /\ moves' = moves + 1
    /\ pc' = "moved"
    /\ calls' = calls + 1
    /\ UNCHANGED <<heap, options, limitsRect, obstacleList, allocate, obstacleCost,
                   grid, routeIndex, openSet, currentNode, startNode, goalNode,
                   delivered, passes, previous, extended>>

\* extendLimits called by the caller after a move (demo/index.js line 128),
\* here with the position of a port.
ExtendLimits ==
    /\ MayCall
    /\ pc = "moved"
    /\ \E i \in 1..Len(routeList), p \in Points :
        LET r == rect(p.x, p.y, p.x, p.y) IN
        /\ p \in {routeList[i].start, routeList[i].goal}
        /\ limitsRect' = extendLimits(limitsRect, r)
        /\ allocate' = extendAllocate(limitsRect, r, allocate)
        /\ extended' = [valid |-> TRUE, r |-> r, lim |-> limitsRect,
                        alloc |-> allocate]
    /\ pc' = "idle"
    /\ calls' = calls + 1
    /\ moved' = NotMoved
    /\ UNCHANGED <<heap, options, obstacleList, routeList, obstacleCost, grid,
                   routeIndex, openSet, currentNode, startNode, goalNode,
                   delivered, passes, moves, previous>>

(***************************************************************************)
(* initGrid (lines 175-219).                                               *)
(***************************************************************************)
gridColumns(lim) == ((lim.right - lim.left) \div GridStep) + 1
gridRows(lim) == ((lim.bottom - lim.top) \div GridStep) + 1

Cells(cols, rows) == (0..(cols - 1)) \X (0..(rows - 1))

\* A variant of lines 191-194 with strict comparisons: the nodes on the
\* edges of a rectangle are no obstacle nodes.
isObstacleInside(x, y, obstacles) ==
    \E i \in 1..Len(obstacles) :
        /\ x > obstacles[i].left /\ x < obstacles[i].right
        /\ y > obstacles[i].top /\ y < obstacles[i].bottom

\* lines 191-194
isObstacle(x, y, obstacles) ==
    \E i \in 1..Len(obstacles) :
        /\ x >= obstacles[i].left /\ x <= obstacles[i].right
        /\ y >= obstacles[i].top /\ y <= obstacles[i].bottom

\* lines 196-214
newNode(lim, obstacles, cell) ==
    LET x == lim.left + cell[1] * GridStep
        y == lim.top + cell[2] * GridStep
    IN  [x |-> x, y |-> y, obstacle |-> isObstacle(x, y, obstacles),
         g |-> Zero, f |-> Zero, parent |-> Null,
         visited |-> FALSE, closed |-> FALSE,
         groupCount |-> 0, groups |-> {}]

\* A variant of lines 175-219 that keeps the node objects with the arrays:
\* the footprints of the pass before stay on the grid.
initGridStale(lim, obstacles, alloc, old) ==
    LET cols == IF alloc THEN gridColumns(lim) ELSE old.cols
        rows == IF alloc THEN gridRows(lim) ELSE old.rows
    IN  [cols |-> cols, rows |-> rows,
         node |-> [cell \in Cells(cols, rows) |->
                     IF alloc THEN newNode(lim, obstacles, cell)
                     ELSE old.node[cell]]]

\* The arrays are created anew when allocate is set and kept otherwise; the
\* cells inside the computed column and row counts get new node objects.
initGrid(lim, obstacles, alloc, old) ==
    LET cols == IF alloc THEN gridColumns(lim) ELSE old.cols
        rows == IF alloc THEN gridRows(lim) ELSE old.rows
    IN  [cols |-> cols, rows |-> rows,
         node |-> [cell \in Cells(cols, rows) |->
                     IF cell[1] < gridColumns(lim) /\ cell[2] < gridRows(lim)
                     THEN newNode(lim, obstacles, cell)
                     ELSE old.node[cell]]]

(***************************************************************************)
(* The distance sort (lines 133-135): Array.prototype.sort is stable.      *)
(***************************************************************************)
routeDistance(route) == distance(route.start, route.goal)

\* Insert route behind every route that is not farther than it.
RECURSIVE insertSorted(_, _)
insertSorted(list, route) ==
    IF list = <<>> THEN <<route>>
    ELSE IF Lt(routeDistance(route), routeDistance(list[Len(list)]))
         THEN Append(insertSorted(SubSeq(list, 1, Len(list) - 1), route),
                     list[Len(list)])
         ELSE Append(list, route)

\* A variant of lines 133-135 that leaves the list in registration order.
sortRoutesKept(list) == list

RECURSIVE sortRoutes(_)
sortRoutes(list) ==
    IF list = <<>> THEN <<>>
    ELSE insertSorted(sortRoutes(SubSeq(list, 1, Len(list) - 1)),
                      list[Len(list)])

(***************************************************************************)
(* Group ids (lines 141-146 and 155-167).                                  *)
(***************************************************************************)
\* A variant of lines 158-161 that takes two routes as connected when their
\* starts are less than a grid step apart in y.
connectedByStartRow(route, refRoute) ==
    Abs(route.start.y - refRoute.start.y) < GridStep

\* lines 158-161
connected(route, refRoute) ==
    \/ samePoint(route.start, refRoute.start)
    \/ samePoint(route.start, refRoute.goal)
    \/ samePoint(route.goal, refRoute.start)
    \/ samePoint(route.goal, refRoute.goal)

\* The loop of propagateGroupId(list[ref], ref) from index i on (1-based).
RECURSIVE propagateFrom(_, _, _)
propagateFrom(list, ref, i) ==
    IF i > Len(list) THEN list
    ELSE IF list[i].groupId = NoGroup /\ connected(list[i], list[ref])
         THEN LET tagged == [list EXCEPT ![i].groupId = list[ref].groupId]
              IN  propagateFrom(propagateFrom(tagged, i, i + 1), ref, i + 1)
         ELSE propagateFrom(list, ref, i + 1)

propagateGroupId(list, ref) == propagateFrom(list, ref, ref + 1)

\* A variant of lines 141-146 without the test of line 141: every pass gives
\* the route the id of its current index.
assignGroupIdAnew(list, i) ==
    propagateGroupId([list EXCEPT ![i].groupId = i - 1], i)

\* lines 141-146, for the route at index i (1-based; its id is i - 1).
assignGroupId(list, i) ==
    IF list[i].groupId = NoGroup
    THEN propagateGroupId([list EXCEPT ![i].groupId = i - 1], i)
    ELSE list


(***************************************************************************)
(* BinaryHeap (lines 426-541).  content is the array of elements, indexed  *)
(* from 0 in the code and from 1 here; score is the score function, given  *)
(* as a function of the element.                                           *)
(***************************************************************************)
swapElements(content, i, j) ==
    [content EXCEPT ![i + 1] = content[j + 1], ![j + 1] = content[i + 1]]

\* lines 477-497: moves the element at index n towards the root.
RECURSIVE sinkDown(_, _, _)
sinkDown(content, score, n) ==
    IF n <= 0 THEN content
    ELSE LET parentN == ((n + 1) \div 2) - 1
         IN  IF Lt(score[content[n + 1]], score[content[parentN + 1]])
             THEN sinkDown(swapElements(content, n, parentN), score, parentN)
             ELSE content

\* lines 499-540: moves the element at index n towards the leaves.
RECURSIVE bubbleUp(_, _, _)
bubbleUp(content, score, n) ==
    LET length == Len(content)
        elemScore == score[content[n + 1]]
        child2N == (n + 1) * 2
        child1N == child2N - 1
        swap1 == IF child1N < length /\ Lt(score[content[child1N + 1]], elemScore)
                 THEN child1N ELSE -1
        swap == IF /\ child2N < length
                   /\ Lt(score[content[child2N + 1]],
                         IF swap1 = -1 THEN elemScore
                         ELSE score[content[child1N + 1]])
                THEN child2N ELSE swap1
    IN  IF swap = -1 THEN content
        ELSE bubbleUp(swapElements(content, n, swap), score, swap)

\* lines 432-437
heapPush(content, score, element) ==
    sinkDown(Append(content, element), score, Len(content))

\* lines 439-451: the content left by pop(); pop() returns content[0].
heapPop(content, score) ==
    LET end == content[Len(content)]
        rest == SubSeq(content, 1, Len(content) - 1)
    IN  IF Len(rest) > 0
        THEN bubbleUp([rest EXCEPT ![1] = end], score, 0)
        ELSE rest

\* Array.prototype.indexOf: the first index of element, or -1.
indexOf(content, element) ==
    IF \E i \in 1..Len(content) : content[i] = element
    THEN (CHOOSE i \in 1..Len(content) :
            /\ content[i] = element
            /\ \A j \in 1..(i - 1) : content[j] # element) - 1
    ELSE -1

\* A variant of lines 473-475 that leaves the element where it is.
rescoreElementInPlace(content, score, element) == content

\* lines 473-475
rescoreElement(content, score, element) ==
    sinkDown(content, score, indexOf(content, element))

\* lines 453-467, for an element of content: the content left by remove().
\* The index is compared with the length after the pop of line 457; an
\* assignment at the index equal to the length appends.
remove(content, score, element) ==
    LET i == indexOf(content, element)
        end == content[Len(content)]
        rest == SubSeq(content, 1, Len(content) - 1)
    IN  IF i # Len(rest) - 1
        THEN LET filled == IF i = Len(rest) THEN Append(rest, end)
                           ELSE [rest EXCEPT ![i + 1] = end]
             IN  IF Lt(score[end], score[element])
                 THEN sinkDown(filled, score, i)
                 ELSE bubbleUp(filled, score, i)
        ELSE rest

\* lines 469-471
size(content) == Len(content)

(***************************************************************************)
(* getNeighbours (lines 385-411), on the node function nodes of a grid of  *)
(* cols x rows cells: the cells in the order of the two loops.             *)
(***************************************************************************)
\* A variant of lines 385-411 that leaves the obstacle nodes out: with it
\* the obstacles are forbidden and not merely penalised.
getNeighboursFree(nodes, cols, rows, cell) ==
    LET left == Max(cell[1] - 1, 0)
        top == Max(cell[2] - 1, 0)
        right == Min(cell[1] + 1, cols - 1)
        bottom == Min(cell[2] + 1, rows - 1)
        h == bottom - top + 1
        all == [k \in 1..((right - left + 1) * h) |->
                    <<left + ((k - 1) \div h), top + ((k - 1) % h)>>]
        keep(n) ==
            /\ ~(n[1] = cell[1] /\ n[2] = cell[2])
            /\ ~(n[1] # cell[1] /\ n[2] # cell[2] /\ ~options.diagonal)
            /\ ~nodes[n].closed
            /\ ~nodes[n].obstacle
    IN  SelectSeq(all, keep)

\* A variant of lines 385-411 without the test of line 404: the closed nodes
\* are neighbours like the others.
getNeighboursClosed(nodes, cols, rows, cell) ==
    LET left == Max(cell[1] - 1, 0)
        top == Max(cell[2] - 1, 0)
        right == Min(cell[1] + 1, cols - 1)
        bottom == Min(cell[2] + 1, rows - 1)
        h == bottom - top + 1
        all == [k \in 1..((right - left + 1) * h) |->
                    <<left + ((k - 1) \div h), top + ((k - 1) % h)>>]
        keep(n) ==
            /\ ~(n[1] = cell[1] /\ n[2] = cell[2])
            /\ ~(n[1] # cell[1] /\ n[2] # cell[2] /\ ~options.diagonal)
    IN  SelectSeq(all, keep)

\* A variant of lines 385-411 without the second test of lines 399-400: the
\* corners are neighbours whatever the diagonal option.
getNeighboursCorners(nodes, cols, rows, cell) ==
    LET left == Max(cell[1] - 1, 0)
        top == Max(cell[2] - 1, 0)
        right == Min(cell[1] + 1, cols - 1)
        bottom == Min(cell[2] + 1, rows - 1)
        h == bottom - top + 1
        all == [k \in 1..((right - left + 1) * h) |->
                    <<left + ((k - 1) \div h), top + ((k - 1) % h)>>]
        keep(n) ==
            /\ ~(n[1] = cell[1] /\ n[2] = cell[2])
            /\ ~nodes[n].closed
    IN  SelectSeq(all, keep)

\* lines 385-411
getNeighbours(nodes, cols, rows, cell) ==
    LET left == Max(cell[1] - 1, 0)
        top == Max(cell[2] - 1, 0)
        right == Min(cell[1] + 1, cols - 1)
        bottom == Min(cell[2] + 1, rows - 1)
        h == bottom - top + 1
        all == [k \in 1..((right - left + 1) * h) |->
                    <<left + ((k - 1) \div h), top + ((k - 1) % h)>>]
        keep(n) ==
            /\ ~(n[1] = cell[1] /\ n[2] = cell[2])
            /\ ~(n[1] # cell[1] /\ n[2] # cell[2] /\ ~options.diagonal)
            /\ ~nodes[n].closed
    IN  SelectSeq(all, keep)


(***************************************************************************)
(* findPath (lines 224-378).                                               *)
(***************************************************************************)
\* A variant of lines 226-232 that leaves the closed flags as they are.
resetNodesParents(nodes) ==
    [cell \in DOMAIN nodes |->
        [nodes[cell] EXCEPT !.parent = Null, !.visited = FALSE]]

\* lines 226-232
resetNodes(nodes) ==
    [cell \in DOMAIN nodes |->
        [nodes[cell] EXCEPT !.parent = Null, !.visited = FALSE, !.closed = FALSE]]

\* lines 235-241: the cell a live point rounds to; it may lie off the grid.
nearestCell(lim, p) ==
    <<Round(p.x - lim.left, GridStep), Round(p.y - lim.top, GridStep)>>

\* grid[col][row] is a node: otherwise the lookup yields undefined, and
\* reading a property of it throws a TypeError (lines 237, 241, 244).
inGrid(g, cell) ==
    /\ 0 <= cell[1] /\ cell[1] < g.cols
    /\ 0 <= cell[2] /\ cell[2] < g.rows

\* lines 274-276: the step from cur to n turns away from the step into cur.
isTurn(nodes, cur, n) ==
    /\ nodes[cur].parent # Null
    /\ (nodes[cur].x - nodes[nodes[cur].parent].x) * (nodes[n].y - nodes[cur].y)
         # (nodes[cur].y - nodes[nodes[cur].parent].y) * (nodes[n].x - nodes[cur].x)

\* A variant of lines 289-296 without the test of lines 293-295: a node next
\* to an obstacle costs no more than another.
RECURSIVE proximityOfGroups(_, _, _, _)
proximityOfGroups(nodes, others, i, groupId) ==
    IF i > Len(others) THEN 0
    ELSE LET m == nodes[others[i]]
         IN  (IF ~options.bus \/ groupId \notin m.groups
              THEN ProximityCost * m.groupCount ELSE 0)
             + proximityOfGroups(nodes, others, i + 1, groupId)

\* lines 289-296: the sum over the neighbours of the neighbour.
RECURSIVE proximity(_, _, _, _)
proximity(nodes, others, i, groupId) ==
    IF i > Len(others) THEN 0
    ELSE LET m == nodes[others[i]]
         IN  (IF ~options.bus \/ groupId \notin m.groups
              THEN ProximityCost * m.groupCount ELSE 0)
             + (IF m.obstacle THEN ProximityCost ELSE 0)
             + proximity(nodes, others, i + 1, groupId)

\* A variant of lines 300-305 without the bus gain: a node of the route's
\* own group is charged like a node of another group.
crossingCharged(nodes, n, groupId) ==
    CrossCost * nodes[n].groupCount

\* lines 300-305
crossing(nodes, n, groupId) ==
    IF options.bus /\ groupId \in nodes[n].groups
    THEN -BusGain
    ELSE CrossCost * nodes[n].groupCount

\* lines 271-305: the g score of n reached from cur.
stepCost(g, cost, cur, n, groupId) ==
    LET nodes == g.node
        base == Plus(nodes[cur].g, distance(nodes[cur], nodes[n]))
        turned == IF isTurn(nodes, cur, n) THEN PlusInt(base, TurnCost) ELSE base
        blocked == IF nodes[n].obstacle THEN Plus(turned, cost) ELSE turned
    IN  PlusInt(blocked,
                proximity(nodes, getNeighbours(nodes, g.cols, g.rows, n), 1, groupId)
                + crossing(nodes, n, groupId))

scoreOf(nodes) == [cell \in DOMAIN nodes |-> nodes[cell].f]

\* A variant of lines 269-325 without the test of line 307: every neighbour
\* takes the score of the step from the current node, higher or not.
RECURSIVE relaxAlways(_, _, _, _, _, _, _)
relaxAlways(s, cost, cur, neighbours, i, goal, groupId) ==
    IF i > Len(neighbours) THEN s
    ELSE LET n == neighbours[i]
             nodes == s.grid.node
             g == stepCost(s.grid, cost, cur, n, groupId)
             updated == [nodes EXCEPT
                            ![n].parent = cur,
                            ![n].g = g,
                            ![n].f = Plus(g, distance(nodes[n], nodes[goal])),
                            ![n].visited = TRUE]
             open == IF nodes[n].visited
                     THEN rescoreElement(s.open, scoreOf(updated), n)
                     ELSE heapPush(s.open, scoreOf(updated), n)
         IN  relaxAlways([grid |-> [s.grid EXCEPT !.node = updated],
                          open |-> open],
                         cost, cur, neighbours, i + 1, goal, groupId)

\* lines 269-325 for the neighbours from index i on; s is [grid, open].
RECURSIVE relax(_, _, _, _, _, _, _)
relax(s, cost, cur, neighbours, i, goal, groupId) ==
    IF i > Len(neighbours) THEN s
    ELSE LET n == neighbours[i]
             nodes == s.grid.node
             g == stepCost(s.grid, cost, cur, n, groupId)
         IN  IF ~nodes[n].visited \/ Lt(g, nodes[n].g)
             THEN LET updated == [nodes EXCEPT
                          ![n].parent = cur,
                          ![n].g = g,
                          ![n].f = Plus(g, distance(nodes[n], nodes[goal])),
                          ![n].visited = TRUE]
                      open == IF nodes[n].visited
                              THEN rescoreElement(s.open, scoreOf(updated), n)
                              ELSE heapPush(s.open, scoreOf(updated), n)
                  IN  relax([grid |-> [s.grid EXCEPT !.node = updated],
                             open |-> open],
                            cost, cur, neighbours, i + 1, goal, groupId)
             ELSE relax(s, cost, cur, neighbours, i + 1, goal, groupId)

\* A variant of lines 331-342 without the test of line 333: every route
\* that crosses a node counts, whatever its group.
RECURSIVE backWalkCounting(_, _, _)
backWalkCounting(s, cell, groupId) ==
    IF cell = Null THEN s
    ELSE LET node == s.nodes[cell]
         IN  backWalkCounting(
                 [nodes |-> [s.nodes EXCEPT
                                ![cell].groupCount = node.groupCount + 1,
                                ![cell].groups = node.groups \cup {groupId}],
                  path |-> <<[x |-> node.x, y |-> node.y]>> \o s.path],
                 node.parent, groupId)

\* lines 331-342: the walk back along the parents; s is [nodes, path].
RECURSIVE backWalk(_, _, _)
backWalk(s, cell, groupId) ==
    IF cell = Null THEN s
    ELSE LET node == s.nodes[cell]
             marked == IF groupId \in node.groups THEN s.nodes
                       ELSE [s.nodes EXCEPT
                                ![cell].groupCount = node.groupCount + 1,
                                ![cell].groups = node.groups \cup {groupId}]
         IN  backWalk([nodes |-> marked,
                       path |-> <<[x |-> node.x, y |-> node.y]>> \o s.path],
                      node.parent, groupId)

collinear(p, q, r) ==
    (q.x - p.x) * (r.y - q.y) = (q.y - p.y) * (r.x - q.x)

RemoveAt(seq, i) == SubSeq(seq, 1, i - 1) \o SubSeq(seq, i + 1, Len(seq))

\* A variant of lines 345-353 that splices nothing: with it the paths keep
\* the grid nodes of their straight runs.
removeUselessKept(pathData, i) == pathData

\* lines 345-353, from index i on (1-based: the code starts at its index 1)
RECURSIVE removeUseless(_, _)
removeUseless(pathData, i) ==
    IF i >= Len(pathData) THEN pathData
    ELSE IF collinear(pathData[i - 1], pathData[i], pathData[i + 1])
         THEN removeUseless(RemoveAt(pathData, i), i)
         ELSE removeUseless(pathData, i + 1)

\* lines 356-361
alignStart(pathData, start) ==
    IF pathData[2].x = pathData[1].x
    THEN [pathData EXCEPT ![2].x = start.x]
    ELSE IF pathData[2].y = pathData[1].y
         THEN [pathData EXCEPT ![2].y = start.y]
         ELSE pathData

\* lines 363-368
alignGoal(pathData, goal) ==
    LET l == Len(pathData)
    IN  IF pathData[l - 1].x = pathData[l].x
        THEN [pathData EXCEPT ![l - 1].x = goal.x]
        ELSE IF pathData[l - 1].y = pathData[l].y
             THEN [pathData EXCEPT ![l - 1].y = goal.y]
             ELSE pathData

\* lines 355-369
alignEnds(pathData, start, goal) ==
    IF Len(pathData) > 1
    THEN alignGoal(alignStart(pathData, start), goal)
    ELSE pathData

\* lines 371-375: the first point is written before the last one.
anchorEnds(pathData, start, goal) ==
    LET first == [pathData EXCEPT ![1] = [x |-> start.x, y |-> start.y]]
    IN  [first EXCEPT ![Len(pathData)] = [x |-> goal.x, y |-> goal.y]]

\* lines 344-377
postProcess(pathData, start, goal) ==
    anchorEnds(alignEnds(removeUseless(pathData, 2), start, goal), start, goal)


(***************************************************************************)
(* route() (lines 125-150), step by step.                                  *)
(***************************************************************************)
\* lines 126-135: initGrid and the distance sort; forEach starts.
RouteBegin ==
    /\ MayCall
    /\ passes < MaxPasses
    /\ calls' = calls + 1
    /\ grid' = initGrid(limitsRect, obstacleList, allocate, grid)
    /\ allocate' = FALSE
    /\ routeList' = sortRoutes(routeList)
    /\ delivered' = <<>>
    /\ passes' = passes + 1
    /\ routeIndex' = 1
    /\ pc' = IF routeList = <<>> THEN "returned" ELSE "routing"
    /\ openSet' = <<>>
    /\ currentNode' = Null
    /\ startNode' = Null
    /\ goalNode' = Null
    /\ extended' = NotExtended
    /\ previous' = IF pc \in {"returned", "threw"} /\ passes > 0
                   THEN [valid |-> TRUE, calls |-> delivered]
                   ELSE NoPrevious
    /\ UNCHANGED <<heap, options, limitsRect, obstacleList, obstacleCost, moves, moved>>

\* lines 141-146 and 226-250: the group id of the next route, then the start
\* of findPath up to the first push.  An endpoint that rounds to a cell off
\* the grid makes findPath throw, and route() with it.
FindPathBegin ==
    /\ pc = "routing"
    /\ LET list == assignGroupId(routeList, routeIndex)
           route == list[routeIndex]
           nodes == resetNodes(grid.node)
           start == nearestCell(limitsRect, route.start)
           goal == nearestCell(limitsRect, route.goal)
       IN  /\ routeList' = list
           /\ IF inGrid(grid, start) /\ inGrid(grid, goal)
              THEN LET seeded == [nodes EXCEPT
                           ![start].f = distance(nodes[start], nodes[goal])]
                   IN  /\ grid' = [grid EXCEPT !.node = seeded]
                       /\ openSet' = heapPush(<<>>, scoreOf(seeded), start)
                       /\ startNode' = start
                       /\ goalNode' = goal
                       /\ pc' = "search"
              ELSE /\ grid' = [grid EXCEPT !.node = nodes]
                   /\ openSet' = <<>>
                   /\ startNode' = Null
                   /\ goalNode' = Null
                   /\ pc' = "threw"
    /\ currentNode' = Null
    /\ UNCHANGED <<heap, options, limitsRect, obstacleList, allocate, obstacleCost,
                   routeIndex, delivered, passes, moves, calls, moved, previous,
                   extended>>

\* lines 253-326: one iteration of the search loop.
SearchStep ==
    /\ pc = "search"
    /\ Len(openSet) > 0
    /\ LET cur == openSet[1]
           popped == heapPop(openSet, scoreOf(grid.node))
       IN  /\ currentNode' = cur
           /\ IF cur = goalNode
              THEN /\ pc' = "found"
                   /\ openSet' = popped
                   /\ grid' = grid
              ELSE LET closed == [grid EXCEPT !.node[cur].closed = TRUE]
                       s == relax([grid |-> closed, open |-> popped],
                                  obstacleCost, cur,
                                  getNeighbours(closed.node, grid.cols, grid.rows, cur),
                                  1, goalNode, routeList[routeIndex].groupId)
                   IN  /\ pc' = "search"
                       /\ openSet' = s.open
                       /\ grid' = s.grid
    /\ UNCHANGED <<heap, options, limitsRect, obstacleList, routeList, allocate,
                   obstacleCost, routeIndex, startNode, goalNode, delivered,
                   passes, moves, calls, moved, previous, extended>>

\* lines 329-377 and line 149: the loop has ended, by the break or on an
\* empty heap; the path is built and handed to onChange; forEach goes on.
FindPathEnd ==
    /\ pc = "found" \/ (pc = "search" /\ Len(openSet) = 0)
    /\ LET route == routeList[routeIndex]
           walked == backWalk([nodes |-> grid.node, path |-> <<>>],
                              currentNode, route.groupId)
       IN  /\ grid' = [grid EXCEPT !.node = walked.nodes]
           /\ delivered' = Append(delivered,
                 [id |-> route.id, groupId |-> route.groupId,
                  start |-> route.start, goal |-> route.goal,
                  path |-> postProcess(walked.path, route.start, route.goal)])
    /\ IF routeIndex < Len(routeList)
       THEN routeIndex' = routeIndex + 1 /\ pc' = "routing"
       ELSE routeIndex' = routeIndex /\ pc' = "returned"
    /\ UNCHANGED <<heap, options, limitsRect, obstacleList, routeList, allocate,
                   obstacleCost, openSet, currentNode, startNode, goalNode,
                   passes, moves, calls, moved, previous, extended>>

Next ==
    \/ AddRoute
    \/ AddObstacle
    \/ MoveEndpoint
    \/ ExtendLimits
    \/ RouteBegin
    \/ FindPathBegin
    \/ SearchStep
    \/ FindPathEnd

Spec == Init /\ [][Next]_vars

(***************************************************************************)
(* A diagram with a wall between two ports: one obstacle, and up to        *)
(* MaxRoutes routes that all join the port on its left to the port on its  *)
(* right.  The routes compete for the ways round the wall.                 *)
(***************************************************************************)
\* The rectangles given to addObstacle: a wall between the ports, or a
\* block of three by three nodes that encloses the node of the left port.
WallRects ==
    { rect(0, -GridStep, 0, 2 * GridStep),
      rect(-2 * GridStep, -GridStep, 0, GridStep) }
\* The ports on either side of the wall, as given to addRoute.
WallStart == [x |-> -GridStep, y |-> 0]
WallGoal == [x |-> GridStep, y |-> 0]

\* The rectangle addRoute(WallStart, WallGoal) gives to extendLimits (line 80).
WallSpan == rect(WallStart.x, WallStart.y, WallGoal.x, WallGoal.y)

\* The limits after new Router(), addObstacle(w) (lines 42-59, 89-91).
WallLimits(w) == extendLimits(rect(0, 0, GridStep, GridStep), w)

\* The state after new Router(options), addObstacle(w) and n calls of
\* addRoute(WallStart, WallGoal, onChange) (lines 42-59, 74-97).
InitWall ==
    /\ heap = NoHeap
    /\ options \in [diagonal : BOOLEAN, bus : BOOLEAN]
    /\ \E n \in 1..MaxRoutes :
        /\ routeList = [i \in 1..n |->
                          [id |-> i, start |-> WallStart, goal |-> WallGoal,
                           groupId |-> NoGroup]]
        /\ calls = n + 1
        /\ \E w \in WallRects :
            /\ obstacleList = <<w>>
            /\ limitsRect = extendLimits(WallLimits(w), WallSpan)
            /\ obstacleCost =
                  LET width == WallLimits(w).right - WallLimits(w).left
                      height == WallLimits(w).bottom - WallLimits(w).top
                  IN  Num(width * height + GridStep * (width + height), 0)
            /\ extended = [valid |-> TRUE, r |-> WallSpan,
                           lim |-> IF n = 1 THEN WallLimits(w)
                                   ELSE extendLimits(WallLimits(w), WallSpan),
                           alloc |-> TRUE]
    /\ allocate = TRUE
    /\ grid = [cols |-> 0, rows |-> 0, node |-> <<>>]
    /\ pc = "idle"
    /\ routeIndex = 0
    /\ openSet = <<>>
    /\ currentNode = Null
    /\ startNode = Null
    /\ goalNode = Null
    /\ delivered = <<>>
    /\ passes = 0
    /\ moves = 0
    /\ moved = NotMoved
    /\ previous = NoPrevious

\* The caller only calls route() from then on.
NextWall ==
    \/ RouteBegin
    \/ FindPathBegin
    \/ SearchStep
    \/ FindPathEnd

SpecWall == InitWall /\ [][NextWall]_vars

(***************************************************************************)
(* The constructor (lines 42-59) on an options object given by the caller. *)
(* The object is the record of its properties, with the set has of the     *)
(* names it holds: a property it does not hold reads as undefined.  The    *)
(* costs are kept in tenths (1.5 * gridStep is 15 * gridStep tenths).      *)
(***************************************************************************)
\* The grid steps and margins callers give: negative, zero and positive.
GridSteps == {-10, -5, -1, 0, 1, 5, 10}
Margins == {0, 20}

\* The options objects given to new Router(options).
GivenOptions ==
    [has : SUBSET {"gridStep", "margin"}, gridStep : GridSteps,
     margin : Margins, diagonal : BOOLEAN, bus : BOOLEAN]

\* lines 45-53: the options after the defaults are filled in.
constructor(o) ==
    LET gridStep == IF "gridStep" \in o.has /\ o.gridStep # 0
                    THEN o.gridStep ELSE 10
    IN  [gridStep |-> gridStep,
         diagonal |-> o.diagonal,
         bus |-> o.bus,
         margin |-> IF "margin" \in o.has THEN o.margin ELSE 2 * gridStep,
         turnCost |-> 15 * gridStep,
         busGain |-> 5 * gridStep,
         crossCost |-> 30 * gridStep,
         proximityCost |-> 20 * gridStep]

\* The caller holds an options object and has not called new Router yet.
InitNew ==
    /\ heap = NoHeap
    /\ options \in GivenOptions
    /\ pc = "new"
    /\ limitsRect = Null
    /\ obstacleList = Null
    /\ routeList = Null
    /\ allocate = FALSE
    /\ obstacleCost = Zero
    /\ grid = [cols |-> 0, rows |-> 0, node |-> <<>>]
    /\ routeIndex = 0
    /\ openSet = <<>>
    /\ currentNode = Null
    /\ startNode = Null
    /\ goalNode = Null
    /\ delivered = <<>>
    /\ passes = 0
    /\ moves = 0
    /\ calls = 0
    /\ moved = NotMoved
    /\ previous = NoPrevious
    /\ extended = NotExtended

\* new Router(options) (lines 42-59): no statement of the constructor
\* throws or returns a failure value; it yields a router.
Construct ==
    /\ pc = "new"
    /\ options' = constructor(options)
    /\ limitsRect' = rect(0, 0, options'.gridStep, options'.gridStep)
    /\ obstacleList' = <<>>
    /\ routeList' = <<>>
    /\ allocate' = TRUE
    /\ pc' = "idle"
    /\ UNCHANGED <<heap, obstacleCost, grid, routeIndex, openSet, currentNode,
                   startNode, goalNode, delivered, passes, moves, calls, moved,
                   previous, extended>>

NextNew == Construct

SpecNew == InitNew /\ [][NextNew]_vars

(***************************************************************************)
(* A BinaryHeap used on its own (lines 426-541): the elements are objects  *)
(* that carry their score, and the score function reads it, as             *)
(* node => node.f does at line 245.                                        *)
(***************************************************************************)
MaxElements == 4
MaxScore == 2
MaxPushes == 5

Elements == 1..MaxElements
Scores == 0..MaxScore

\* The variables of the router.
routerVars ==
    <<options, limitsRect, obstacleList, routeList, allocate, obstacleCost,
      grid, pc, routeIndex, openSet, currentNode, startNode, goalNode,
      delivered, passes, moves, calls, moved, previous, extended>>

\* The heap did nothing yet.
NoOp == [op |-> "none", element |-> 0, before |-> <<>>]

\* new BinaryHeap(scoreFunction) (lines 427-430), beside a new router.
InitHeap ==
    /\ heap = [content |-> <<>>, score |-> [e \in Elements |-> Zero],
               pushes |-> 0, pops |-> 0, last |-> NoOp]
    /\ options = [diagonal |-> FALSE, bus |-> FALSE]
    /\ limitsRect = rect(0, 0, GridStep, GridStep)
    /\ obstacleList = <<>>
    /\ routeList = <<>>
    /\ allocate = TRUE
    /\ obstacleCost = Zero
    /\ grid = [cols |-> 0, rows |-> 0, node |-> <<>>]
    /\ pc = "heap"
    /\ routeIndex = 0
    /\ openSet = <<>>
    /\ currentNode = Null
    /\ startNode = Null
    /\ goalNode = Null
    /\ delivered = <<>>
    /\ passes = 0
    /\ moves = 0
    /\ calls = 0
    /\ moved = NotMoved
    /\ previous = NoPrevious
    /\ extended = NotExtended

contains(content, element) == indexOf(content, element) # -1

\* push(element) (lines 432-437) of an element that is not in the heap,
\* created with some score.
HeapPush ==
    /\ pc = "heap"
    /\ heap.pushes < MaxPushes
    /\ \E e \in Elements, v \in Scores :
        LET score == [heap.score EXCEPT ![e] = Num(v, 0)] IN
        /\ ~contains(heap.content, e)
        /\ heap' = [content |-> heapPush(heap.content, score, e),
                    score |-> score,
                    pushes |-> heap.pushes + 1,
                    pops |-> heap.pops,
                    last |-> [op |-> "push", element |-> e,
                              before |-> heap.content]]
    /\ UNCHANGED routerVars

\* pop() (lines 439-451) on a heap that is not empty.
HeapPop ==
    /\ pc = "heap"
    /\ size(heap.content) > 0
    /\ heap' = [heap EXCEPT
                  !.content = heapPop(heap.content, heap.score),
                  !.pops = heap.pops + 1,
                  !.last = [op |-> "pop", element |-> heap.content[1],
                            before |-> heap.content]]
    /\ UNCHANGED routerVars

\* The score of an element of the heap is lowered in place, then
\* rescoreElement(element) is called (lines 473-475, as at lines 311-321).
HeapRescore ==
    /\ pc = "heap"
    /\ \E e \in Elements, v \in Scores :
        LET score == [heap.score EXCEPT ![e] = Num(v, 0)] IN
        /\ contains(heap.content, e)
        /\ Lt(Num(v, 0), heap.score[e])
        /\ heap' = [heap EXCEPT
                      !.content = rescoreElement(heap.content, score, e),
                      !.score = score,
                      !.last = [op |-> "rescore", element |-> e,
                                before |-> heap.content]]
    /\ UNCHANGED routerVars

\* remove(element) (lines 453-467) of an element of the heap.
HeapRemove ==
    /\ pc = "heap"
    /\ \E e \in Elements :
        /\ contains(heap.content, e)
        /\ heap' = [heap EXCEPT
                      !.content = remove(heap.content, heap.score, e),
                      !.last = [op |-> "remove", element |-> e,
                                before |-> heap.content]]
    /\ UNCHANGED routerVars

\* The operations the router uses.
NextHeap ==
    \/ HeapPush
    \/ HeapPop
    \/ HeapRescore

SpecHeap == InitHeap /\ [][NextHeap]_vars

\* All the operations of the class.
NextHeapRemove ==
    \/ HeapPush
    \/ HeapPop
    \/ HeapRescore
    \/ HeapRemove

SpecHeapRemove == InitHeap /\ [][NextHeapRemove]_vars

(***************************************************************************)
(* Properties of the router.                                               *)
(***************************************************************************)
\* The point p lies inside the exploration area.
insideLimits(p) ==
    /\ limitsRect.left <= p.x /\ p.x <= limitsRect.right
    /\ limitsRect.top <= p.y /\ p.y <= limitsRect.bottom

\* The onChange call d was made for a route with both ports inside the area.
portsInside(d) == insideLimits(d.start) /\ insideLimits(d.goal)

\* C1: endpoint fidelity.  When a route() pass has returned, every path it
\* handed to onChange for a route with both ports inside the limits starts
\* at the live start and ends at the live goal of the route, also when the
\* two ports differ and round to the same grid node (a path of one point).
EndpointFidelity ==
    pc = "returned" =>
        \A i \in 1..Len(delivered) :
            LET d == delivered[i] IN
            portsInside(d) =>
                /\ Len(d.path) >= 1
                /\ d.path[1] = d.start
                /\ d.path[Len(d.path)] = d.goal

\* The number of onChange calls made for the route id in the current pass.
callbacks(id) == Cardinality({i \in 1..Len(delivered) : delivered[i].id = id})

\* C2: when a route() pass has ended, by a return or by an exception, the
\* onChange callback of every route of the list was invoked exactly once in
\* that pass.
CallbackOncePerPass ==
    (pc \in {"returned", "threw"} /\ passes > 0) =>
        \A i \in 1..Len(routeList) : callbacks(routeList[i].id) = 1

\* Routes i and j of list are joined by a chain of at most n routes, each
\* sharing a port position with the next.
RECURSIVE joined(_, _, _, _)
joined(list, i, j, n) ==
    \/ i = j
    \/ /\ n > 0
       /\ \E k \in 1..Len(list) :
            connected(list[i], list[k]) /\ joined(list, k, j, n - 1)

\* C3: group equivalence.  After the pass that gives every route its first
\* group id, two routes have the same groupId if and only if a chain of
\* routes sharing port positions joins them.
GroupEquivalence ==
    (pc = "returned" /\ passes = 1) =>
        \A i, j \in 1..Len(routeList) :
            (routeList[i].groupId = routeList[j].groupId)
                <=> joined(routeList, i, j, Len(routeList))

\* No step changes a group id that is set: the route keeps it, wherever the
\* distance sort puts the route in the list.
StickyStep ==
    \A i \in 1..Len(routeList) :
        routeList[i].groupId # NoGroup =>
            \E j \in 1..Len(routeList') :
                /\ routeList'[j].id = routeList[i].id
                /\ routeList'[j].groupId = routeList[i].groupId

\* C4: group ids are sticky.  Once a route has a groupId, no port move,
\* addRoute, addObstacle, extendLimits or route() step changes it.
GroupIdsSticky == [][StickyStep]_vars

\* A second pass has returned after a port moved, and a route stands before
\* the index its group id names: a new assignment could not have given it
\* this id.
GroupIdsStickyWitness ==
    /\ pc = "returned"
    /\ passes = 2
    /\ moves = 1
    /\ \E i \in 1..Len(routeList) : routeList[i].groupId > i - 1

\* C5: representative invariant.  After every route() pass, later passes
\* included, every route r has a groupId, and the route at index r.groupId
\* of the current list has the same groupId.
RepresentativeInvariant ==
    pc = "returned" =>
        \A i \in 1..Len(routeList) :
            LET id == routeList[i].groupId IN
            /\ id # NoGroup
            /\ id + 1 \in 1..Len(routeList)
            /\ routeList[id + 1].groupId = id

\* The limits contain the rectangle r with Margin to spare on every side.
containsWithMargin(r) ==
    /\ limitsRect.left + Margin <= r.left
    /\ limitsRect.left + Margin <= r.right
    /\ r.left + Margin <= limitsRect.right
    /\ r.right + Margin <= limitsRect.right
    /\ limitsRect.top + Margin <= r.top
    /\ limitsRect.top + Margin <= r.bottom
    /\ r.top + Margin <= limitsRect.bottom
    /\ r.bottom + Margin <= limitsRect.bottom

\* C6: limits containment.  After any sequence of addObstacle and addRoute
\* calls (route() calls change no limit), the limits contain every obstacle
\* and every start and goal with a clearance of Margin on each of the four
\* sides, also when the start lies to the right of or below the goal.
LimitsContainment ==
    moves = 0 =>
        /\ \A i \in 1..Len(obstacleList) : containsWithMargin(obstacleList[i])
        /\ \A i \in 1..Len(routeList) :
            LET s == routeList[i].start
                g == routeList[i].goal
            IN  /\ containsWithMargin(rect(s.x, s.y, s.x, s.y))
                /\ containsWithMargin(rect(g.x, g.y, g.x, g.y))

\* The cell of the grid nearest to cell.
clampCell(cell) ==
    <<Max(0, Min(cell[1], grid.cols - 1)), Max(0, Min(cell[2], grid.rows - 1))>>

\* C7: out-of-area endpoints are clamped.  Once findPath has looked up the
\* nodes of the ports of its route, the start and goal nodes are the grid
\* nodes nearest to the cells the ports round to: never undefined.
ClampedLookup ==
    pc \in {"search", "found", "threw"} =>
        LET route == routeList[routeIndex] IN
        /\ startNode = clampCell(nearestCell(limitsRect, route.start))
        /\ goalNode = clampCell(nearestCell(limitsRect, route.goal))

\* C8: a route follows its ports.  When a port is moved right after a
\* route() call has returned and route() is called right after the move,
\* this second pass returns, and the path it hands to the route ends at the
\* new goal (starts at the new start).
FollowsEndpoints ==
    (pc \in {"returned", "threw"} /\ moved # NotMoved /\ moved.after = "returned") =>
        /\ pc = "returned"
        /\ \E i \in 1..Len(delivered) :
            LET d == delivered[i] IN
            /\ d.id = moved.id
            /\ \E j \in 1..Len(routeList) :
                /\ routeList[j].id = moved.id
                /\ Len(d.path) >= 1
                /\ moved.end = "goal" => d.path[Len(d.path)] = routeList[j].goal
                /\ moved.end = "start" => d.path[1] = routeList[j].start

\* C9: orthogonality.  With diagonal = false, two adjacent distinct points
\* of a path handed to onChange differ in exactly one of x and y, for ports
\* inside the limits, on grid nodes or not, and for paths of two points.
Orthogonality ==
    ~options.diagonal =>
        \A i \in 1..Len(delivered) :
            LET d == delivered[i] IN
            portsInside(d) =>
                \A k \in 1..(Len(d.path) - 1) :
                    d.path[k] # d.path[k + 1] =>
                        (d.path[k].x = d.path[k + 1].x)
                            # (d.path[k].y = d.path[k + 1].y)

\* C10: no collinear interior point.  In every path handed to onChange, no
\* point but the first and the last is collinear with its two neighbours.
NoCollinearInterior ==
    \A i \in 1..Len(delivered) :
        LET path == delivered[i].path IN
        \A k \in 2..(Len(path) - 1) :
            ~collinear(path[k - 1], path[k], path[k + 1])

\* A pass has handed a path of more than two points to onChange for a route
\* whose start is off the grid nodes, so that the alignment has moved the
\* second point of the path.
NoCollinearInteriorWitness ==
    /\ pc = "returned"
    /\ \E i \in 1..Len(delivered) :
        LET d == delivered[i] IN
        /\ Len(d.path) >= 3
        /\ \/ /\ d.path[2].x = d.start.x
              /\ (d.start.x - limitsRect.left) % GridStep # 0
           \/ /\ d.path[2].y = d.start.y
              /\ (d.start.y - limitsRect.top) % GridStep # 0

\* The path handed to onChange for the route id among calls.
pathOf(calls_, id) ==
    LET i == CHOOSE k \in 1..Len(calls_) : calls_[k].id = id
    IN  calls_[i].path

\* C11: determinism across passes.  When route() is called again right
\* after a route() call, with no registration and no port move in between,
\* the same routes receive a path as in the first call, and each receives
\* the same path.
Determinism ==
    (pc \in {"returned", "threw"} /\ previous.valid) =>
        /\ Len(delivered) = Len(previous.calls)
        /\ \A i \in 1..Len(delivered) :
            /\ \E k \in 1..Len(previous.calls) :
                  previous.calls[k].id = delivered[i].id
            /\ pathOf(previous.calls, delivered[i].id) = delivered[i].path

\* A second pass has returned right after the first, with an obstacle on
\* the grid, several routes, and a path with corners among them: the
\* second pass has met the sorted list, the group ids and a kept grid.
DeterminismWitness ==
    /\ pc = "returned"
    /\ previous.valid
    /\ Len(obstacleList) > 0
    /\ Len(delivered) >= 2
    /\ \E i \in 1..Len(delivered) : Len(delivered[i].path) >= 3

\* The rectangle r lies inside lim with Margin to spare on every side.
containedInside(lim, r) ==
    /\ r.left >= lim.left + Margin
    /\ r.right <= lim.right - Margin
    /\ r.top >= lim.top + Margin
    /\ r.bottom <= lim.bottom - Margin

\* C12: extendLimits is a no-op for contained rectangles.  After a call
\* extendLimits(r) with r inside the limits by Margin on every side, the four
\* edges of the limits and the allocate flag are what they were before.
ExtendLimitsNoOp ==
    (extended.valid /\ containedInside(extended.lim, extended.r)) =>
        /\ limitsRect = extended.lim
        /\ allocate = extended.alloc

\* extendLimits was called with a rectangle (left of its right edge, above
\* its bottom edge) inside the limits by Margin, after a pass had cleared
\* the allocate flag.
ExtendLimitsNoOpWitness ==
    /\ extended.valid
    /\ extended.r.left <= extended.r.right
    /\ extended.r.top <= extended.r.bottom
    /\ containedInside(extended.lim, extended.r)
    /\ ~extended.alloc
    /\ passes > 0

\* C13: extendLimits only enlarges.  After a call extendLimits(r) no edge
\* of the limits has moved inward (left and top have not increased, right
\* and bottom have not decreased), and the allocate flag was set by the
\* call only if an edge has moved.
ExtendLimitsEnlarges ==
    extended.valid =>
        /\ limitsRect.left <= extended.lim.left
        /\ limitsRect.top <= extended.lim.top
        /\ limitsRect.right >= extended.lim.right
        /\ limitsRect.bottom >= extended.lim.bottom
        /\ (allocate /\ ~extended.alloc) => limitsRect # extended.lim

\* The cells on the chain of parents that ends in cell (lines 331-342).
RECURSIVE chain(_, _)
chain(nodes, cell) ==
    IF cell = Null THEN {}
    ELSE {cell} \cup chain(nodes, nodes[cell].parent)

\* The steps of the lattice: to the four neighbours, and to the corners too
\* when diagonal moves are allowed (lines 385-411).
adjacent(c, d) ==
    /\ c # d
    /\ Abs(c[1] - d[1]) <= 1 /\ Abs(c[2] - d[2]) <= 1
    /\ options.diagonal \/ c[1] = d[1] \/ c[2] = d[2]

\* The cells of a grid, column by column.
cellSeq(g) ==
    [k \in 1..(g.cols * g.rows) |-> <<(k - 1) \div g.rows, (k - 1) % g.rows>>]

\* The cells joined to a cell of reached by a path of cells that are no
\* obstacles, reached first.
RECURSIVE freeReach(_, _)
freeReach(g, reached) ==
    LET new(d) ==
            /\ ~g.node[d].obstacle
            /\ \A i \in 1..Len(reached) : reached[i] # d
            /\ \E i \in 1..Len(reached) : adjacent(reached[i], d)
        more == SelectSeq(cellSeq(g), new)
    IN  IF more = <<>> THEN reached ELSE freeReach(g, reached \o more)

\* A path of the grid without any obstacle node joins the cells a and b.
slack(g, a, b) ==
    /\ ~g.node[a].obstacle
    /\ LET reached == freeReach(g, <<a>>)
       IN  \E i \in 1..Len(reached) : reached[i] = b

\* C14: obstacle avoidance under slack.  When a path of the grid without
\* obstacle nodes joins the start node and the goal node, the node sequence
\* the search chooses (the chain of parents from the popped goal) holds no
\* obstacle node, whatever the footprints of the routes found before.
ObstacleAvoidance ==
    (pc = "found" /\ slack(grid, startNode, goalNode))
        => \A c \in chain(grid.node, currentNode) : ~grid.node[c].obstacle

\* The search has chosen a node sequence without obstacle nodes: a simple
\* path of the grid, whose composite cost (lines 271-305) is the g score
\* of its last node less the g score the start node kept (line 271 adds to
\* it, and lines 226-250 do not reset it).
freeChain ==
    /\ pc = "found"
    /\ \A c \in chain(grid.node, currentNode) : ~grid.node[c].obstacle

\* C15: the obstacle penalty dominates.  At every pass obstacleCost is
\* strictly greater than the composite cost (distance, turn, proximity and
\* crossing terms) of any simple path of the grid without obstacle nodes,
\* here of the path the search has chosen, also when addRoute enlarged the
\* limits after the last addObstacle.
PenaltyDominates ==
    freeChain => Lt(grid.node[currentNode].g,
                    Plus(grid.node[startNode].g, obstacleCost))

\* A step of new Router(options) on options that hold a gridStep <= 0 ends
\* in a failure.
rejectsGridStep ==
    (pc = "new" /\ "gridStep" \in options.has /\ options.gridStep <= 0)
        => pc' = "threw"

\* C16: misconfiguration is rejected.  Constructing a Router with a
\* gridStep that is zero or negative fails at construction instead of
\* yielding a usable router.
MisconfigurationRejected == [][rejectsGridStep]_vars

\* Every element of content scores at least what its parent scores.
isHeap(content, score) ==
    \A n \in 1..(Len(content) - 1) :
        ~Lt(score[content[n + 1]], score[content[((n + 1) \div 2) - 1 + 1]])

\* The elements of content.
elementsOf(content) == { content[i] : i \in 1..Len(content) }

\* No element is twice in content.
distinct(content) == Cardinality(elementsOf(content)) = Len(content)

\* The last operation was a pop: it returned an element of minimum score
\* among those the heap held, and took exactly that element out.
popContract ==
    heap.last.op = "pop" =>
        /\ \A i \in 1..Len(heap.last.before) :
              ~Lt(heap.score[heap.last.before[i]], heap.score[heap.last.element])
        /\ elementsOf(heap.content)
              = elementsOf(heap.last.before) \ {heap.last.element}
        /\ size(heap.content) = Len(heap.last.before) - 1

\* C17: the min-heap contract.  After any sequence of push, pop on a heap
\* that is not empty, and rescore of a contained element whose score was
\* lowered in place, every element scores at least what its heap parent
\* scores, each pop returns an element of minimum score, removes exactly
\* that element and keeps the others, and size() is pushes minus pops.
HeapContract ==
    /\ isHeap(heap.content, heap.score)
    /\ distinct(heap.content)
    /\ popContract
    /\ size(heap.content) = heap.pushes - heap.pops

\* A pop has taken the minimum out of a full heap, and the element put in
\* its place has moved down.
HeapContractWitness ==
    /\ heap.last.op = "pop"
    /\ Len(heap.last.before) = MaxElements
    /\ heap.pops > 1
    /\ heap.content[1] # heap.last.before[MaxElements]

\* C18: heap removal.  For a heap that holds the element e at any position
\* (the root, an interior slot, the second-to-last or the last slot),
\* remove(e) leaves exactly the elements held before without e (one element
\* less, e absent, every other element present), in heap order.
HeapRemoval ==
    (/\ heap.last.op = "remove"
     /\ isHeap(heap.last.before, heap.score)
     /\ distinct(heap.last.before))
        => /\ elementsOf(heap.content)
                 = elementsOf(heap.last.before) \ {heap.last.element}
           /\ size(heap.content) = Len(heap.last.before) - 1
           /\ isHeap(heap.content, heap.score)

\* The steps of the lattice, as changes of column and row.
directions ==
    IF options.diagonal
    THEN << <<-1, -1>>, <<-1, 0>>, <<-1, 1>>, <<0, -1>>, <<0, 1>>,
            <<1, -1>>, <<1, 0>>, <<1, 1>> >>
    ELSE << <<-1, 0>>, <<0, -1>>, <<0, 1>>, <<1, 0>> >>

\* The terms of lines 279-305 for a step into cell n, on the grid as the
\* routes found before left it: the obstacle penalty, the proximity of the
\* neighbours of n, and the crossing cost or bus gain.
enterCost(g, cost, n, groupId) ==
    LET nodes == resetNodes(g.node)
        around == getNeighbours(nodes, g.cols, g.rows, n)
    IN  PlusInt(IF nodes[n].obstacle THEN cost ELSE Zero,
                proximity(nodes, around, 1, groupId)
                + crossing(nodes, n, groupId))

\* enterCost for every cell, in the order of cellSeq.
enterCosts(g, cost, groupId) ==
    SelectSeq([k \in 1..(g.cols * g.rows) |->
                  enterCost(g, cost, cellSeq(g)[k], groupId)],
              LAMBDA c : TRUE)

cellIndex(g, cell) == cell[1] * g.rows + cell[2] + 1

\* The least costs of the lattice paths from the start cell, for every cell
\* and every direction of the last step: entry (c - 1) * D + j of a table is
\* for the paths that end in the c-th cell by a step in the j-th direction,
\* [ok |-> FALSE] when none is known.
unknown == [ok |-> FALSE, d |-> Zero]

better(u, v) ==
    IF ~u.ok THEN v
    ELSE IF ~v.ok THEN u
    ELSE IF Lt(v.d, u.d) THEN v ELSE u

\* The best way to come to the from cell and leave it in direction j, over
\* the directions i..D of the step into it.
RECURSIVE bestBefore(_, _, _, _, _, _)
bestBefore(g, table, from, j, i, start) ==
    LET D == Len(directions)
    IN  IF i > D
        THEN IF from = start THEN [ok |-> TRUE, d |-> Zero] ELSE unknown
        ELSE LET e == table[(cellIndex(g, from) - 1) * D + i]
                 here == IF ~e.ok THEN unknown
                         ELSE IF i = j THEN e
                         ELSE [ok |-> TRUE, d |-> PlusInt(e.d, TurnCost)]
             IN  better(here, bestBefore(g, table, from, j, i + 1, start))

\* One more step allowed: the entries of the table, improved.
relaxed(g, enter, table, start) ==
    LET D == Len(directions)
        entry(k) ==
            LET c == ((k - 1) \div D) + 1
                j == ((k - 1) % D) + 1
                cell == cellSeq(g)[c]
                from == <<cell[1] - directions[j][1], cell[2] - directions[j][2]>>
            IN  IF ~inGrid(g, from) THEN unknown
                ELSE LET b == bestBefore(g, table, from, j, 1, start)
                     IN  IF ~b.ok THEN table[k]
                         ELSE better(table[k],
                                [ok |-> TRUE,
                                 d |-> Plus(b.d,
                                          Plus(distance(g.node[from], g.node[cell]),
                                               enter[c]))])
    IN  SelectSeq([k \in 1..Len(table) |-> entry(k)], LAMBDA e : TRUE)

RECURSIVE leastCosts(_, _, _, _)
leastCosts(g, enter, table, start) ==
    LET next == relaxed(g, enter, table, start)
    IN  IF next = table THEN table ELSE leastCosts(g, enter, next, start)

\* C19: per-route optimality.  The path findPath selects has the least
\* composite cost (distance, turn cost, obstacle penalty, proximity cost,
\* crossing cost or bus gain, on the grid as the routes found before left
\* it) among the lattice paths from the start node to the goal node: no
\* lattice path costs less than what the search itself counts for the
\* selected path, the g score of the goal over the g score the start node
\* kept.
Optimality ==
    pc = "found" =>
        LET groupId == routeList[routeIndex].groupId
            enter == enterCosts(grid, obstacleCost, groupId)
            table == leastCosts(grid, enter,
                        [k \in 1..(grid.cols * grid.rows * Len(directions)) |->
                            unknown],
                        startNode)
        IN  \A j \in 1..Len(directions) :
                LET e == table[(cellIndex(grid, goalNode) - 1)
                                  * Len(directions) + j]
                IN  e.ok => ~Lt(Plus(e.d, grid.node[startNode].g),
                                grid.node[currentNode].g)

\* C20: the goal is always reached.  When the start and the goal of a route
\* round to nodes of the grid, the search loop ends by popping the goal
\* node, never on an empty heap, whatever the obstacles, also when they
\* enclose the start or the goal.
GoalReached ==
    /\ pc = "search" => size(openSet) > 0
    /\ pc = "found" => currentNode = goalNode

\* Every node next to cell is an obstacle node.
enclosed(g, cell) ==
    \A d \in Cells(g.cols, g.rows) :
        (Abs(d[1] - cell[1]) <= 1 /\ Abs(d[2] - cell[2]) <= 1) => g.node[d].obstacle

\* A search that started on a node enclosed by obstacle nodes has popped
\* its goal outside of them.
GoalReachedWitness ==
    /\ pc = "found"
    /\ currentNode = goalNode
    /\ enclosed(grid, startNode)
    /\ ~grid.node[goalNode].obstacle

\* C21: callback ordering.  Within a pass the callbacks fire in
\* non-decreasing order of the distance between the live endpoints, in the
\* order of the sorted list, and the callback of a route fires once its
\* path is complete and before the search for the next route begins: while
\* the i-th route is searched, exactly the i - 1 routes before it were
\* delivered.
CallbackOrdering ==
    /\ \A i, j \in 1..Len(delivered) :
          i < j => ~Lt(distance(delivered[j].start, delivered[j].goal),
                       distance(delivered[i].start, delivered[i].goal))
    /\ pc \in {"routing", "search", "found"} =>
          /\ Len(delivered) = routeIndex - 1
          /\ \A k \in 1..Len(delivered) : delivered[k].id = routeList[k].id

\* A pass has delivered a shorter route before a longer one that was
\* registered first.
CallbackOrderingWitness ==
    /\ pc = "returned"
    /\ \E i, j \in 1..Len(delivered) :
          /\ i < j
          /\ delivered[i].id > delivered[j].id
          /\ Lt(distance(delivered[i].start, delivered[i].goal),
                distance(delivered[j].start, delivered[j].goal))

\* What addRoute registered, in list order: the routes without the group
\* ids that route() gives them.
registration(list) ==
    [i \in 1..Len(list) |->
        [id |-> list[i].id, start |-> list[i].start, goal |-> list[i].goal]]

\* A step of route() (its beginning, or a step of one of its searches)
\* leaves the limits, the obstacle list and the route list as they were.
routeFrame ==
    (passes' # passes \/ pc \in {"routing", "search", "found"})
        => /\ limitsRect' = limitsRect
           /\ obstacleList' = obstacleList
           /\ registration(routeList') = registration(routeList)

\* C22: route() does not mutate the registration state.  The limits
\* rectangle, the obstacle list and the route list are the same after a
\* route() call as before it.
RouteFrame == [][routeFrame]_vars

\* A step obeys the reset discipline of the node fields: a step that starts
\* a search leaves every node with parent = null and neither visited nor
\* closed; a step that starts a pass leaves every node without footprints;
\* any other step of a pass takes no footprint away.
resetDiscipline ==
    /\ (pc' = "search" /\ currentNode' = Null) =>
          \A c \in DOMAIN grid'.node :
              /\ grid'.node[c].parent = Null
              /\ ~grid'.node[c].visited
              /\ ~grid'.node[c].closed
    /\ passes' # passes =>
          \A c \in DOMAIN grid'.node :
              grid'.node[c].groupCount = 0 /\ grid'.node[c].groups = {}
    /\ (passes' = passes /\ pc \in {"routing", "search", "found"}) =>
          \A c \in DOMAIN grid.node :
              /\ grid'.node[c].groupCount >= grid.node[c].groupCount
              /\ grid.node[c].groups \subseteq grid'.node[c].groups

\* C23: field reset discipline.  At the start of every search every node
\* has parent = null, visited = false and closed = false; at the start of
\* every pass, whether or not the grid was reallocated, every node has
\* groupCount = 0 and no groups; between the searches of one pass the
\* footprints are never reset.
ResetDiscipline == [][resetDiscipline]_vars

\* The second search of a pass that came right after another pass (the grid
\* was not reallocated) starts on nodes that carry the footprints of the
\* first search.
ResetDisciplineWitness ==
    /\ previous.valid
    /\ pc = "search"
    /\ currentNode = Null
    /\ routeIndex = 2
    /\ \E c \in DOMAIN grid.node : grid.node[c].groupCount > 0

\* C24: same-group overlap.  For a node that only the group of the route
\* being searched has used, the crossing term of a step onto it (lines
\* 300-305) is minus busGain with bus = true and nothing with bus = false,
\* and the node adds no proximity cost for its footprint to a step next to
\* it (lines 289-296).
SameGroupNeutral ==
    pc = "search" =>
        LET groupId == routeList[routeIndex].groupId IN
        \A n \in DOMAIN grid.node :
            grid.node[n].groups = {groupId} =>
                /\ crossing(grid.node, n, groupId)
                      = (IF options.bus THEN -BusGain ELSE 0)
                /\ proximity(grid.node, <<n>>, 1, groupId)
                      = (IF grid.node[n].obstacle THEN ProximityCost ELSE 0)

(***************************************************************************)
(* A diagram with one connection and no obstacle: the ports stand on       *)
(* multiples of the grid step, on one row or one column of the grid, on    *)
(* the same point, or apart in both directions.                            *)
(***************************************************************************)
\* The positions of the two ports, as given to addRoute.
StraightPorts ==
    { [x |-> 0, y |-> 0], [x |-> 5 * GridStep, y |-> 0],
      [x |-> 0, y |-> 5 * GridStep] }

\* The state after new Router(options) and addRoute(start, goal, onChange)
\* (lines 42-59, 74-81).
InitStraight ==
    /\ heap = NoHeap
    /\ options \in [diagonal : BOOLEAN, bus : BOOLEAN]
    /\ \E start \in StraightPorts, goal \in StraightPorts :
        LET r == rect(start.x, start.y, goal.x, goal.y) IN
        /\ routeList = <<[id |-> 1, start |-> start, goal |-> goal,
                          groupId |-> NoGroup]>>
        /\ limitsRect = extendLimits(rect(0, 0, GridStep, GridStep), r)
        /\ extended = [valid |-> TRUE, r |-> r,
                       lim |-> rect(0, 0, GridStep, GridStep), alloc |-> TRUE]
    /\ obstacleList = <<>>
    /\ obstacleCost = Zero
    /\ allocate = TRUE
    /\ grid = [cols |-> 0, rows |-> 0, node |-> <<>>]
    /\ pc = "idle"
    /\ routeIndex = 0
    /\ openSet = <<>>
    /\ currentNode = Null
    /\ startNode = Null
    /\ goalNode = Null
    /\ delivered = <<>>
    /\ passes = 0
    /\ moves = 0
    /\ calls = 1
    /\ moved = NotMoved
    /\ previous = NoPrevious

SpecStraight == InitStraight /\ [][NextWall]_vars

\* The point p is the position of a node of the grid.
onNode(p) ==
    LET cell == nearestCell(limitsRect, p) IN
    /\ inGrid(grid, cell)
    /\ grid.node[cell].x = p.x
    /\ grid.node[cell].y = p.y

\* The call d of onChange is for a route between two grid nodes of one row
\* or one column, in a diagram with no obstacle and no other route.
straight(d) ==
    /\ obstacleList = <<>>
    /\ Len(routeList) = 1
    /\ onNode(d.start) /\ onNode(d.goal)
    /\ d.start.x = d.goal.x \/ d.start.y = d.goal.y

\* C25, as stated: straight shot.  With no obstacle and a single route
\* whose start and goal lie on grid nodes of the same row or of the same
\* column, the path handed to onChange is exactly the two points
\* [start, goal].
StraightShot ==
    \A i \in 1..Len(delivered) :
        LET d == delivered[i] IN
        straight(d) => d.path = <<d.start, d.goal>>

\* C25, amended: straight shot between two distinct grid nodes.  With no
\* obstacle and a single route whose start and goal lie on two distinct
\* grid nodes of the same row or of the same column, the path handed to
\* onChange is exactly the two points [start, goal]; a route whose start and
\* goal are the same point gets the path of that one point.
StraightShotDistinct ==
    \A i \in 1..Len(delivered) :
        LET d == delivered[i] IN
        straight(d) =>
            d.path = IF d.start = d.goal THEN <<d.start>>
                     ELSE <<d.start, d.goal>>

\* route() has returned after routing (0,0) -> (50,0) with diagonal = false:
\* the search has crossed four grid nodes between the ports, and the path
\* has the two ports only.
StraightShotWitness ==
    /\ pc = "returned"
    /\ ~options.diagonal
    /\ Len(delivered) = 1
    /\ straight(delivered[1])
    /\ delivered[1].start = [x |-> 0, y |-> 0]
    /\ delivered[1].goal = [x |-> 5 * GridStep, y |-> 0]
    /\ delivered[1].path = <<delivered[1].start, delivered[1].goal>>
    /\ Cardinality(chain(grid.node, currentNode)) = 6

(***************************************************************************)
(* A diagram with a box between two ports of one row: the obstacle is      *)
(* registered first, then the connection.                                  *)
(***************************************************************************)
\* The rectangle given to addObstacle, and the ports given to addRoute.
BoxRect == rect(2 * GridStep, -2 * GridStep, 4 * GridStep, 2 * GridStep)
BoxStart == [x |-> 0, y |-> 0]
BoxGoal == [x |-> 6 * GridStep, y |-> 0]

\* The limits after new Router(), addObstacle(BoxRect) (lines 42-59, 89-91).
BoxLimits == extendLimits(rect(0, 0, GridStep, GridStep), BoxRect)

\* The rectangle addRoute(BoxStart, BoxGoal) gives to extendLimits (line 80).
BoxSpan == rect(BoxStart.x, BoxStart.y, BoxGoal.x, BoxGoal.y)

\* The state after new Router(options), addObstacle(BoxRect) and
\* addRoute(BoxStart, BoxGoal, onChange) (lines 42-59, 74-97).
InitBox ==
    /\ heap = NoHeap
    /\ options \in [diagonal : BOOLEAN, bus : BOOLEAN]
    /\ obstacleList = <<BoxRect>>
    /\ obstacleCost =
          LET width == BoxLimits.right - BoxLimits.left
              height == BoxLimits.bottom - BoxLimits.top
          IN  Num(width * height + GridStep * (width + height), 0)
    /\ routeList = <<[id |-> 1, start |-> BoxStart, goal |-> BoxGoal,
                      groupId |-> NoGroup]>>
    /\ limitsRect = extendLimits(BoxLimits, BoxSpan)
    /\ extended = [valid |-> TRUE, r |-> BoxSpan, lim |-> BoxLimits,
                   alloc |-> TRUE]
    /\ allocate = TRUE
    /\ grid = [cols |-> 0, rows |-> 0, node |-> <<>>]
    /\ pc = "idle"
    /\ routeIndex = 0
    /\ openSet = <<>>
    /\ currentNode = Null
    /\ startNode = Null
    /\ goalNode = Null
    /\ delivered = <<>>
    /\ passes = 0
    /\ moves = 0
    /\ calls = 2
    /\ moved = NotMoved
    /\ previous = NoPrevious

SpecBox == InitBox /\ [][NextWall]_vars

\* The path of four points from BoxStart to BoxGoal that passes the box
\* along the row y.
boxPath(y) ==
    <<BoxStart, [x |-> BoxStart.x, y |-> y], [x |-> BoxGoal.x, y |-> y], BoxGoal>>

\* No node of the chain of the last search is an obstacle node.
clearOfObstacles ==
    \A cell \in chain(grid.node, currentNode) : ~grid.node[cell].obstacle

\* C26, as stated: around a box.  With the default options, the obstacle
\* (20,-20,40,20) registered first and the route (0,0) -> (60,0), the path
\* handed to onChange has exactly four points, starts and ends at the
\* ports, passes the obstacle along the row y = -30 or the row y = 30, and
\* holds no obstacle node.
AroundBox ==
    ~options.diagonal =>
        \A i \in 1..Len(delivered) :
            /\ delivered[i].path \in {boxPath(-3 * GridStep), boxPath(3 * GridStep)}
            /\ clearOfObstacles

\* C26, amended: around a box, one row away from it.  With the default
\* options, the obstacle (20,-20,40,20) registered first and the route
\* (0,0) -> (60,0), the path handed to onChange has exactly four points,
\* starts and ends at the ports, passes the obstacle along the row y = -40,
\* the top edge of the limits, and holds no obstacle node: the nodes of the
\* row y = -30 are next to obstacle nodes and bear the proximity cost.
AroundBoxApart ==
    ~options.diagonal =>
        \A i \in 1..Len(delivered) :
            /\ delivered[i].path = boxPath(-4 * GridStep)
            /\ clearOfObstacles

\* route() has returned with diagonal = false: the path of the route goes
\* up from (0,0) to the row y = -40, along it past the box, and down to
\* (60,0).
AroundBoxWitness ==
    /\ pc = "returned"
    /\ ~options.diagonal
    /\ obstacleList = <<BoxRect>>
    /\ Len(delivered) = 1
    /\ delivered[1].path = boxPath(-4 * GridStep)
    /\ Cardinality(chain(grid.node, currentNode)) = 15

(***************************************************************************)
(* A diagram with two connections that leave one port: a bus.  The caller  *)
(* registers them in either order.                                         *)
(***************************************************************************)
\* The ports given to addRoute: the shared start and the two goals.
BusStart == [x |-> 0, y |-> 0]
BusGoals == <<[x |-> 10 * GridStep, y |-> 0],
              [x |-> 10 * GridStep, y |-> 5 * GridStep]>>

\* The rectangle addRoute(BusStart, goal) gives to extendLimits (line 80).
BusSpan(goal) == rect(BusStart.x, BusStart.y, goal.x, goal.y)

\* The state after new Router(options) and the two calls of addRoute, to
\* BusGoals[first] and then to the other goal (lines 42-59, 74-81).
InitBus ==
    /\ heap = NoHeap
    /\ options \in [diagonal : BOOLEAN, bus : BOOLEAN]
    /\ \E first \in 1..2 :
        LET second == 3 - first
            lim == extendLimits(rect(0, 0, GridStep, GridStep),
                                BusSpan(BusGoals[first]))
        IN  /\ routeList =
                 <<[id |-> 1, start |-> BusStart, goal |-> BusGoals[first],
                    groupId |-> NoGroup],
                   [id |-> 2, start |-> BusStart, goal |-> BusGoals[second],
                    groupId |-> NoGroup]>>
            /\ limitsRect = extendLimits(lim, BusSpan(BusGoals[second]))
            /\ extended = [valid |-> TRUE, r |-> BusSpan(BusGoals[second]),
                           lim |-> lim, alloc |-> TRUE]
    /\ obstacleList = <<>>
    /\ obstacleCost = Zero
    /\ allocate = TRUE
    /\ grid = [cols |-> 0, rows |-> 0, node |-> <<>>]
    /\ pc = "idle"
    /\ routeIndex = 0
    /\ openSet = <<>>
    /\ currentNode = Null
    /\ startNode = Null
    /\ goalNode = Null
    /\ delivered = <<>>
    /\ passes = 0
    /\ moves = 0
    /\ calls = 2
    /\ moved = NotMoved
    /\ previous = NoPrevious

SpecBus == InitBus /\ [][NextWall]_vars

\* C27: bus sharing.  With bus = true and the default options otherwise
\* (diagonal = false), no obstacle, and the two routes from (0,0) to
\* (100,0) and to (100,50), once route() has returned both routes have the
\* same groupId, and their paths both start at (0,0) and have the same
\* second point.
BusSharing ==
    (pc = "returned" /\ options.bus /\ ~options.diagonal) =>
        /\ Len(delivered) = 2
        /\ routeList[1].groupId = routeList[2].groupId
        /\ delivered[1].groupId = delivered[2].groupId
        /\ Len(delivered[1].path) >= 2 /\ Len(delivered[2].path) >= 2
        /\ delivered[1].path[1] = BusStart
        /\ delivered[2].path[1] = BusStart
        /\ delivered[1].path[2] = delivered[2].path[2]

\* route() has returned with bus = true and diagonal = false: the route to
\* (100,50) was routed second, runs along the route to (100,0) up to its
\* goal and turns there.
BusSharingWitness ==
    /\ pc = "returned"
    /\ options.bus /\ ~options.diagonal
    /\ Len(delivered) = 2
    /\ delivered[1].path = <<BusStart, BusGoals[1]>>
    /\ delivered[2].path = <<BusStart, BusGoals[1], BusGoals[2]>>
    /\ \A cell \in chain(grid.node, currentNode) :
          grid.node[cell].y = 0 => grid.node[cell].groupCount = 1

\* C28: footprint bookkeeping.  At every moment, for every grid node,
\* groupCount is the number of distinct group ids in groups; and once the
\* search for a route has finished and its path is handed over, every node
\* on the chain of parents from the last popped node back to the start node
\* has the group id of the route in groups.
FootprintBookkeeping ==
    /\ \A cell \in DOMAIN grid.node :
          grid.node[cell].groupCount = Cardinality(grid.node[cell].groups)
    /\ (pc \in {"routing", "returned"} /\ Len(delivered) > 0) =>
          /\ startNode \in chain(grid.node, currentNode)
          /\ \A cell \in chain(grid.node, currentNode) :
                delivered[Len(delivered)].groupId \in grid.node[cell].groups

\* Two routes of one group have been routed from the same start node: the
\* node is on the chains of both searches, and it counts one group.
FootprintBookkeepingWitness ==
    /\ pc = "returned"
    /\ Len(delivered) = 2
    /\ delivered[1].groupId = delivered[2].groupId
    /\ delivered[1].start = delivered[2].start
    /\ Cardinality(chain(grid.node, currentNode)) > 1
    /\ grid.node[startNode].groups = {delivered[1].groupId}
    /\ grid.node[startNode].groupCount = 1

\* A step of the search loop, seen from outside: a node that was visited
\* keeps or lowers its g; a visited node whose f has changed was rescored
\* (lines 317-319), and then it was in the open heap once the current node
\* was popped, it is still there, and its f is strictly lower than before;
\* and the open heap holds no node twice.
relaxDiscipline ==
    (pc = "search" /\ pc' \in {"search", "found"}) =>
        /\ \A n \in DOMAIN grid.node :
              grid.node[n].visited =>
                  /\ ~Lt(grid.node[n].g, grid'.node[n].g)
                  /\ grid'.node[n].f # grid.node[n].f =>
                        /\ n # openSet[1]
                        /\ contains(openSet, n)
                        /\ contains(openSet', n)
                        /\ Lt(grid'.node[n].f, grid.node[n].f)
        /\ distinct(openSet')

\* C29: relaxation and rescore discipline.  During a search, rescore is
\* called only on a node that is in the open heap and whose f the
\* relaxation has strictly lowered; the g of a visited node never
\* increases; and no node is in the open heap more than once.
RelaxDiscipline == [][relaxDiscipline]_vars

\* The search has just rescored a node: the node n is in the open heap, its
\* parent is the node popped last, and another of its neighbours was closed
\* before, which had made n visited.
RelaxDisciplineWitness ==
    /\ pc = "search"
    /\ currentNode # Null
    /\ distinct(openSet)
    /\ \E n \in DOMAIN grid.node :
        /\ grid.node[n].parent = currentNode
        /\ grid.node[n].visited
        /\ contains(openSet, n)
        /\ \E q \in DOMAIN grid.node :
            /\ q # currentNode
            /\ adjacent(q, n)
            /\ grid.node[q].closed

(***************************************************************************)
(* route() runs to its end once called: JavaScript does not suspend it, so *)
(* each step of its loops that can be taken is taken.  The caller is under *)
(* no such obligation.                                                     *)
(***************************************************************************)
\* WF_vars(SearchStep), with the guard of SearchStep for ENABLED: the loop
\* of lines 252-326 goes on while the open heap holds a node.
fairSearchStep ==
    \/ []<>~(pc = "search" /\ Len(openSet) > 0)
    \/ []<><<SearchStep>>_vars

\* WF_vars(FindPathEnd), with the guard of FindPathEnd for ENABLED: the code
\* after the loop (lines 328-377, 149) runs when the loop has ended.
fairFindPathEnd ==
    \/ []<>~(pc = "found" \/ (pc = "search" /\ Len(openSet) = 0))
    \/ []<><<FindPathEnd>>_vars

SpecStraightFair ==
    /\ SpecStraight
    /\ WF_vars(FindPathBegin)
    /\ fairSearchStep
    /\ fairFindPathEnd

\* A step of the search loop: the node it pops was not closed; unless that
\* node is the goal, it is closed now, and it alone; no closed node is in
\* the open heap; a node that enters the open heap was not visited, is now,
\* and is not the start node; and a visited node stays visited.
searchProgress ==
    (pc = "search" /\ pc' \in {"search", "found"}) =>
        LET cur == openSet[1]
            closedNodes == { n \in DOMAIN grid.node : grid.node[n].closed }
            closedAfter == { n \in DOMAIN grid.node : grid'.node[n].closed }
        IN  /\ cur \notin closedNodes
            /\ ~contains(openSet', cur)
            /\ closedAfter = IF pc' = "found" THEN closedNodes
                             ELSE closedNodes \cup {cur}
            /\ Cardinality(closedAfter) <= grid.cols * grid.rows
            /\ \A n \in DOMAIN grid.node :
                /\ n \in closedAfter => ~contains(openSet', n)
                /\ grid.node[n].visited => grid'.node[n].visited
                /\ (contains(openSet', n) /\ ~contains(openSet, n)) =>
                      /\ ~grid.node[n].visited
                      /\ grid'.node[n].visited
                      /\ n # startNode

\* Every step of every search keeps to searchProgress.
SearchProgress == [][searchProgress]_vars

\* C30: search and pass termination.  In every search each grid node is
\* pushed at most once and popped at most once, and a closed node never
\* re-enters the open heap, so that the loop ends after at most cols*rows
\* pops; and every route() call that has started routing returns.
Termination ==
    /\ SearchProgress
    /\ (pc = "routing") ~> (pc = "returned")

\* The nodes from cell back along the parents, cell first, as far as the
\* walk of lines 331-342 goes in fuel steps.
RECURSIVE ancestors(_, _, _)
ancestors(nodes, cell, fuel) ==
    IF cell = Null \/ fuel = 0 THEN <<>>
    ELSE <<cell>> \o ancestors(nodes, nodes[cell].parent, fuel - 1)

\* The walk back from cell ends within the number of nodes of the grid, at
\* the start node, over pairwise distinct nodes, each next to the one before.
walksBack(cell) ==
    LET walk == ancestors(grid.node, cell, grid.cols * grid.rows + 1) IN
    /\ Len(walk) <= grid.cols * grid.rows
    /\ walk[Len(walk)] = startNode
    /\ distinct(walk)
    /\ \A k \in 1..(Len(walk) - 1) : adjacent(walk[k + 1], walk[k])

\* C31: parent tree well-formedness.  At every step of a search, the start
\* node has no parent; a node has a parent if and only if it is visited,
\* and this parent is a closed node next to it (in one of the four
\* directions when diagonal is false); the parents form no cycle: the walk
\* back from every visited node, and so from the goal node when it is
\* reached, ends at the start node over pairwise distinct, consecutively
\* adjacent nodes.
ParentTree ==
    pc \in {"search", "found"} =>
        /\ grid.node[startNode].parent = Null
        /\ \A n \in DOMAIN grid.node :
            /\ (grid.node[n].parent # Null) = grid.node[n].visited
            /\ grid.node[n].visited =>
                  /\ grid.node[grid.node[n].parent].closed
                  /\ adjacent(grid.node[n].parent, n)
                  /\ walksBack(n)
        /\ pc = "found" => currentNode = goalNode /\ walksBack(goalNode)

\* A search has reached a goal that is not the start: the walk back from it
\* has more than two nodes, and some node of the tree is not on it.
ParentTreeWitness ==
    /\ pc = "found"
    /\ Len(ancestors(grid.node, goalNode, grid.cols * grid.rows + 1)) > 2
    /\ walksBack(goalNode)
    /\ \E n \in DOMAIN grid.node :
        /\ grid.node[n].visited
        /\ n \notin chain(grid.node, goalNode)

\* C32: neighbour selection.  For every node (col,row) of the grid,
\* getNeighbours returns, each once, exactly the nodes (c,r) of the grid
\* with |c - col| <= 1 and |r - row| <= 1 other than (col,row) that are not
\* closed and, unless diagonal is true, are in the column or the row of
\* (col,row); it returns neither the node itself nor a cell off the grid.
NeighbourSelection ==
    pc \in {"search", "found"} =>
        \A cell \in DOMAIN grid.node :
            LET ns == getNeighbours(grid.node, grid.cols, grid.rows, cell) IN
            /\ distinct(ns)
            /\ \A i \in 1..Len(ns) : inGrid(grid, ns[i]) /\ ns[i] # cell
            /\ elementsOf(ns) =
                  { n \in (0..(grid.cols - 1)) \X (0..(grid.rows - 1)) :
                      /\ Abs(n[1] - cell[1]) <= 1
                      /\ Abs(n[2] - cell[2]) <= 1
                      /\ n # cell
                      /\ ~grid.node[n].closed
                      /\ options.diagonal \/ n[1] = cell[1] \/ n[2] = cell[2] }

\* A search is under way with diagonal = false: a node of the first column
\* has a closed node beside it and a node diagonal to it that is not
\* closed, and getNeighbours returns neither of them.
NeighbourSelectionWitness ==
    /\ pc = "search"
    /\ ~options.diagonal
    /\ \E cell \in DOMAIN grid.node :
        LET ns == getNeighbours(grid.node, grid.cols, grid.rows, cell) IN
        /\ cell[1] = 0
        /\ Len(ns) >= 1
        /\ grid.node[<<1, cell[2]>>].closed
        /\ <<1, cell[2]>> \notin elementsOf(ns)
        /\ \E r \in {cell[2] - 1, cell[2] + 1} :
            /\ inGrid(grid, <<1, r>>)
            /\ ~grid.node[<<1, r>>].closed
            /\ <<1, r>> \notin elementsOf(ns)

\* initGrid has run in the pass under way, or in the pass that has just
\* ended, and the caller has not acted since.
afterInitGrid ==
    passes > 0 /\ pc \in {"routing", "search", "found", "returned", "threw"}

gridShape ==
    (passes' = passes + 1) =>
        LET cols == ((limitsRect.right - limitsRect.left) \div GridStep) + 1
            rows == ((limitsRect.bottom - limitsRect.top) \div GridStep) + 1
        IN  /\ ~allocate => grid.cols = cols /\ grid.rows = rows
            /\ grid'.cols = cols /\ grid'.rows = rows
            /\ DOMAIN grid'.node = (0..(cols - 1)) \X (0..(rows - 1))
            /\ \A cell \in DOMAIN grid'.node :
                LET node == grid'.node[cell] IN
                /\ node.groupCount = 0 /\ node.groups = {}
                /\ node.parent = Null /\ ~node.visited /\ ~node.closed
                /\ node.g = Zero /\ node.f = Zero

\* C34: grid shape consistency.  After any sequence of addObstacle,
\* addRoute, extendLimits and route() calls, whenever initGrid runs with
\* allocate = false the grid has exactly the column and row counts computed
\* from the current limits, so that the searches of the pass start on a
\* full rectangle whose every cell holds a node created in this pass.
GridShape == [][gridShape]_vars

\* route() was called right after a pass that had routed a route, with
\* allocate false: the second pass starts on nodes without footprints.
GridShapeWitness ==
    /\ passes = 2
    /\ pc = "routing"
    /\ routeIndex = 1
    /\ delivered = <<>>
    /\ previous.valid
    /\ Len(previous.calls) >= 1
    /\ \A cell \in DOMAIN grid.node : grid.node[cell].groupCount = 0
    /\ grid.cols * grid.rows > 1

\* The routes a and b have a port position in common.
sharesPort(a, b) == {a.start, a.goal} \cap {b.start, b.goal} # {}

\* Routes i and j of list are joined by a chain of at most n routes, each
\* with a port position in common with the next.
RECURSIVE chained(_, _, _, _)
chained(list, i, j, n) ==
    \/ i = j
    \/ /\ n > 0
       /\ \E k \in 1..Len(list) :
            sharesPort(list[i], list[k]) /\ chained(list, k, j, n - 1)

\* C35: group id soundness on first assignment.  In the first pass, where
\* no route has a groupId when route() is called, two routes that have got
\* the same groupId are joined by a chain of routes each sharing a port
\* position with the next, and the route at the index groupId of the sorted
\* list has this groupId.
GroupSoundness ==
    (passes = 1 /\ pc \in {"routing", "search", "found", "returned", "threw"}) =>
        \A i, j \in 1..Len(routeList) :
            LET id == routeList[i].groupId IN
            (id # NoGroup /\ routeList[j].groupId = id) =>
                /\ chained(routeList, i, j, Len(routeList))
                /\ id + 1 \in 1..Len(routeList)
                /\ routeList[id + 1].groupId = id

\* The first pass has returned with three routes in two groups: two routes
\* share a port position and a groupId, and the third shares none with
\* them and has another groupId.
GroupSoundnessWitness ==
    /\ passes = 1
    /\ pc = "returned"
    /\ Len(routeList) = 3
    /\ \E i, j, k \in 1..3 :
        /\ i # j
        /\ routeList[i].groupId = routeList[j].groupId
        /\ sharesPort(routeList[i], routeList[j])
        /\ routeList[k].groupId # routeList[i].groupId
        /\ routeList[k].groupId # NoGroup
        /\ ~sharesPort(routeList[k], routeList[i])
        /\ ~sharesPort(routeList[k], routeList[j])

(***************************************************************************)
(* A diagram that grows: one connection is registered and routed, then the *)
(* caller registers more connections and calls route() again.              *)
(***************************************************************************)
\* The state after new Router(options) and
\* addRoute({x: 0, y: 0}, {x: 50, y: 0}, onChange) (lines 42-59, 74-81).
InitGrow ==
    /\ InitStraight
    /\ routeList[1].start = [x |-> 0, y |-> 0]
    /\ routeList[1].goal = [x |-> 5 * GridStep, y |-> 0]

\* addRoute (lines 74-81), called after a pass of route().
AddRouteLater ==
    /\ MayCall
    /\ passes > 0
    /\ Len(routeList) < MaxRoutes
    /\ \E start \in StraightPorts, goal \in StraightPorts :
        LET r == rect(start.x, start.y, goal.x, goal.y) IN
        /\ routeList' = Append(routeList,
                [id |-> Len(routeList) + 1, start |-> start, goal |-> goal,
                 groupId |-> NoGroup])
        /\ limitsRect' = extendLimits(limitsRect, r)
        /\ allocate' = extendAllocate(limitsRect, r, allocate)
        /\ extended' = [valid |-> TRUE, r |-> r, lim |-> limitsRect,
                        alloc |-> allocate]
    /\ pc' = "idle"
    /\ calls' = calls + 1
    /\ moved' = NotMoved
    /\ UNCHANGED <<heap, options, obstacleList, obstacleCost, grid, routeIndex,
                   openSet, currentNode, startNode, goalNode, delivered,
                   passes, moves, previous>>

NextGrow ==
    \/ AddRouteLater
    \/ RouteBegin
    \/ FindPathBegin
    \/ SearchStep
    \/ FindPathEnd

SpecGrow == InitGrow /\ [][NextGrow]_vars

\* C36: group ids stay distinct across incremental registration.  When
\* routes are added after a pass of route() and route() has returned
\* again, a new route that no chain of shared port positions joins to the
\* route grouped by the first pass has another groupId than this route, and
\* a new route that shares a port position with it has its groupId.
IncrementalGroups ==
    (pc = "returned" /\ passes = 2) =>
        \A i, j \in 1..Len(routeList) :
            (routeList[i].id = 1 /\ routeList[j].id > 1) =>
                /\ ~chained(routeList, i, j, Len(routeList)) =>
                      routeList[j].groupId # routeList[i].groupId
                /\ sharesPort(routeList[i], routeList[j]) =>
                      routeList[j].groupId = routeList[i].groupId

\* The cells of the grid around cell: up to eight.
surrounding(cell) ==
    SelectSeq(cellSeq(grid),
              LAMBDA c : c # cell /\ Abs(c[1] - cell[1]) <= 1
                                  /\ Abs(c[2] - cell[2]) <= 1)

\* The proximity cost of the footprints around a node: proximityCost for
\* every obstacle node of cells, and proximityCost times groupCount for
\* every node of cells that the group groupId has not crossed.
RECURSIVE footprintCost(_, _, _)
footprintCost(cells, i, groupId) ==
    IF i > Len(cells) THEN 0
    ELSE LET m == grid.node[cells[i]]
         IN  (IF m.obstacle THEN ProximityCost ELSE 0)
             + (IF groupId \notin m.groups
                THEN ProximityCost * m.groupCount ELSE 0)
             + footprintCost(cells, i + 1, groupId)

\* C37: the proximity cost is a function of the grid footprint only.  In
\* every iteration of the search loop, the proximity component added for
\* the step from the popped node into its neighbour n is proximityCost
\* times the number of obstacle nodes among the up to eight grid nodes
\* around n, plus proximityCost times the sum of groupCount over those of
\* these nodes that are foreign to the group of the route, whatever nodes
\* the search has closed and whatever the diagonal option.
ProximityFootprint ==
    (pc = "search" /\ Len(openSet) > 0 /\ openSet[1] # goalNode) =>
        LET cur == openSet[1]
            closed == [grid.node EXCEPT ![cur].closed = TRUE]
            groupId == routeList[routeIndex].groupId
            neighbours == getNeighbours(closed, grid.cols, grid.rows, cur)
        IN  \A i \in 1..Len(neighbours) :
                LET n == neighbours[i] IN
                proximity(closed,
                          getNeighbours(closed, grid.cols, grid.rows, n),
                          1, groupId)
                    = footprintCost(surrounding(n), 1, groupId)

\* C38: g is the accumulated cost from the start in every search.  In
\* every search, of the first route of a pass or of a later one, the g of
\* the start node is 0.  Every relaxation sets the g of a node to the g of
\* its parent plus the cost of the step (lines 271-314), so that the g of a
\* node of the final chain is the sum of the step costs from the start node
\* exactly when the g of the start node is 0.
AccumulatedCost ==
    pc \in {"search", "found"} => grid.node[startNode].g = Zero

====
